---- MODULE Spec2Model ----
(***************************************************************************)
(* Model of src/src/photometry.py: PhotCalcs (k-correction, color, flux /  *)
(* magnitude conversions), CalcMag.getMag and ObsMag.simulateObservation.  *)
(*                                                                         *)
(* Numbers.  Fluxes, wavelengths, integrals and distances are reals of the *)
(* form 0, +10^e, -10^e or +infinity, kept as records [k, e]; on these the *)
(* products, quotients and log10 of the code are exact.  Magnitudes are    *)
(* kept in tenths of a magnitude as records [inf, v] (v an integer), so    *)
(* -2.5*log10(10^e) is the integer -25*e and 5*log10(10^e)+25 is 50*e+250. *)
(***************************************************************************)
EXTENDS Integers, Sequences, FiniteSets, TLC

VARIABLES sed, filterDict, cosmoModel, errorModel,
          op, args, ret, nQuad, nLog, cosmoLog, errLog,
          shared, models, pc, wargs, wkc, wdL, wret

vars == <<sed, filterDict, cosmoModel, errorModel,
          op, args, ret, nQuad, nLog, cosmoLog, errLog,
          shared, models, pc, wargs, wkc, wdL, wret>>

calcVars == <<sed, filterDict, cosmoModel, errorModel,
              op, args, ret, nQuad, nLog, cosmoLog, errLog>>

concVars == <<shared, models, pc, wargs, wkc, wdL, wret>>

(***************************************************************************)
(* Bounds of the model.                                                    *)
(***************************************************************************)
\* wavelength grid of the quadrature: lambda_i = 10^i, i in 1..NLam
NLam == 3
\* largest absolute magnitude drawn for absMag[1], in magnitudes
MaxAbsMag == 1

(***************************************************************************)
(* Reals 0, +-10^e, +infinity.                                             *)
(***************************************************************************)
Zero == [k |-> "zero", e |-> 0]
P10(e) == [k |-> "pos", e |-> e]
N10(e) == [k |-> "neg", e |-> e]
PInf == [k |-> "inf", e |-> 0]
One == P10(0)

\* x == 0.
IsZero(x) == x.k = "zero"

\* x <= 0
LeqZero(x) == x.k \in {"zero", "neg"}

\* x < 0
LtZero(x) == x.k = "neg"

\* a * b for finite a, b
Mul(a, b) ==
    IF a.k = "zero" \/ b.k = "zero" THEN Zero
    ELSE [k |-> IF a.k = b.k THEN "pos" ELSE "neg", e |-> a.e + b.e]

\* a / b for finite a and finite non-zero b (Python raises ZeroDivisionError
\* for b == 0; every use below tests the divisor first)
Div(a, b) ==
    IF a.k = "zero" THEN Zero
    ELSE [k |-> IF a.k = b.k THEN "pos" ELSE "neg", e |-> a.e - b.e]

\* a > b for a any real and b a positive finite real
Gt(a, b) == a.k = "inf" \/ (a.k = "pos" /\ a.e > b.e)

RECURSIVE ILog10(_)
\* the exponent e of a power of ten n = 10^e, n >= 1
ILog10(n) == IF n < 10 THEN 0 ELSE 1 + ILog10(n \div 10)

RECURSIVE IPow10(_)
IPow10(e) == IF e <= 0 THEN 1 ELSE 10 * IPow10(e - 1)

(***************************************************************************)
(* Magnitudes, in tenths of a magnitude.                                   *)
(***************************************************************************)
MagFin(v) == [inf |-> FALSE, v |-> v]
MagInf == [inf |-> TRUE, v |-> 0]

\* float addition of two magnitudes neither of which is -inf or NaN
AddMag(a, b) == IF a.inf \/ b.inf THEN MagInf ELSE MagFin(a.v + b.v)

\* c * math.log10(x) + d for x > 0 (x possibly +inf), c > 0 in tenths
LinLog10(c, x, d) == IF x.k = "inf" THEN MagInf ELSE MagFin(c * x.e + d)

(***************************************************************************)
(* Results of a call: a returned value or a raised exception.              *)
(***************************************************************************)
NoVal == MagFin(0)
Ret(v) == [kind |-> "ret", val |-> v, exc |-> "none"]
Raise(e) == [kind |-> "raise", val |-> NoVal, exc |-> e]

LookupErr == "LookupError: filter is not in the filter dictionary"
FilterZeroErr == "ValueError: one or more filters integrate to zero"
NoRestFluxErr == "ValueError: no flux within rest-frame filter"
SameFilterErr == "ValueError: cannot have color as difference between same filter"
ZeroDivErr == "ZeroDivisionError"
MathDomainErr == "ValueError: math domain error"
FluxErr == "ValueError: flux cannot be <=0"
FracErr == "ValueError: fractional flux error cannot be <=0"
MagErrErr == "ValueError: error on magnitude cannot be <=0"

(***************************************************************************)
(* Collaborators: the SED, the filters and the quadrature.                 *)
(***************************************************************************)
Grid == 1..NLam

\* wavelength of grid point i
Lam(i) == P10(i)

\* redshifts drawn for the calls: 1 + z is 1 or 10
Zs == {0, 9}

\* 1. + z
OnePlusZ(z) == P10(ILog10(1 + z))

\* rest-frame templates: a flux of 0 or 1 at each rest wavelength 10^0..10^NLam
SEDs == [0..NLam -> {Zero, One}]

\* sed.getFlux(lam, z): the rest-frame template taken at lam/(1+z)
getFlux(i, z) == sed[i - ILog10(1 + z)]

\* a filter whose transmission is 1 at grid point p and 0 elsewhere in a..b
Band(a, b, p) == [range |-> <<a, b>>,
                  trans |-> [i \in Grid |-> IF i = p THEN One ELSE Zero]]

\* a filter whose transmission is 0 over its whole declared range a..b
Blank(a, b) == [range |-> <<a, b>>, trans |-> [i \in Grid |-> Zero]]

Filters == [u |-> Band(1, 2, 1), r |-> Band(2, 3, 2), dark |-> Blank(1, 2)]

\* filter names drawn for the calls; "nofilt" is not in the dictionary
Names == {"u", "r", "dark", "nofilt"}

\* filterDict[filtname].returnFilterRange()
returnFilterRange(filtname) == filterDict[filtname].range

\* filterDict[filtname].getTrans(lam)
getTrans(filtname, i) == filterDict[filtname].trans[i]

\* integ.quad(f, a, b)[0]: the sum of f over the grid points of a..b.  Every
\* integrand carries a transmission factor and a Band passes one grid point,
\* so at most one term of the sum is non-zero.
quad(f, a, b) ==
    LET nz == {i \in a..b : ~IsZero(f[i])}
    IN  IF nz = {} THEN Zero ELSE f[CHOOSE i \in nz : TRUE]

\* PhotCalcs._integrand1: Sed(lam/(1+z))*Filt(lam)*lam
integrand1(i, z, filtname) == Mul(Mul(getFlux(i, z), getTrans(filtname, i)), Lam(i))

\* PhotCalcs._integrand2: Filt(lam)/lam
integrand2(i, filtname) == Div(getTrans(filtname, i), Lam(i))

(***************************************************************************)
(* PhotCalcs.kCorrectionXY.  The result carries the number of integrals    *)
(* and of logarithms evaluated before the call returned or raised.         *)
(***************************************************************************)
Out(res, q, l) == [res |-> res, nQuad |-> q, nLog |-> l]

\* variant with a plausible slip: the rest-frame flux is tested before the observed flux
kCorrectionXY_RestFluxFirst(filtX, filtY, z) ==
    IF filtX \notin DOMAIN filterDict THEN Out(Raise(LookupErr), 0, 0)
    ELSE IF filtY \notin DOMAIN filterDict THEN Out(Raise(LookupErr), 0, 0)
    ELSE
    LET aX == returnFilterRange(filtX)[1]
        bX == returnFilterRange(filtX)[2]
        aY == returnFilterRange(filtY)[1]
        bY == returnFilterRange(filtY)[2]
        int1 == quad([i \in Grid |-> integrand1(i, z, filtX)], aX, bX)
        int3 == quad([i \in Grid |-> integrand1(i, 0, filtY)], aY, bY)
        differ == filtX # filtY
        int2 == IF differ THEN quad([i \in Grid |-> integrand2(i, filtY)], aY, bY)
                ELSE One
        int4 == IF differ THEN quad([i \in Grid |-> integrand2(i, filtX)], aX, bX)
                ELSE One
        q == IF differ THEN 4 ELSE 2
    IN  IF differ /\ (IsZero(int2) \/ IsZero(int4))
            THEN Out(Raise(FilterZeroErr), q, 0)
        ELSE IF IsZero(int3) THEN Out(Raise(NoRestFluxErr), q, 0)
        ELSE IF IsZero(int1) THEN Out(Ret(MagInf), q, 0)
        ELSE Out(Ret(LinLog10(-25,
                     Div(Mul(Div(One, OnePlusZ(z)), Mul(int1, int2)),
                         Mul(int3, int4)), 0)), q, 1)

\* variant with a plausible slip: the observed flux is tested before the filter integrals
kCorrectionXY_FluxBeforeFilters(filtX, filtY, z) ==
    IF filtX \notin DOMAIN filterDict THEN Out(Raise(LookupErr), 0, 0)
    ELSE IF filtY \notin DOMAIN filterDict THEN Out(Raise(LookupErr), 0, 0)
    ELSE
    LET aX == returnFilterRange(filtX)[1]
        bX == returnFilterRange(filtX)[2]
        aY == returnFilterRange(filtY)[1]
        bY == returnFilterRange(filtY)[2]
        int1 == quad([i \in Grid |-> integrand1(i, z, filtX)], aX, bX)
        int3 == quad([i \in Grid |-> integrand1(i, 0, filtY)], aY, bY)
        differ == filtX # filtY
        int2 == IF differ THEN quad([i \in Grid |-> integrand2(i, filtY)], aY, bY)
                ELSE One
        int4 == IF differ THEN quad([i \in Grid |-> integrand2(i, filtX)], aX, bX)
                ELSE One
    IN  IF IsZero(int1) THEN Out(Ret(MagInf), 2, 0)
        ELSE IF differ /\ (IsZero(int2) \/ IsZero(int4))
            THEN Out(Raise(FilterZeroErr), 4, 0)
        ELSE IF IsZero(int3) THEN Out(Raise(NoRestFluxErr), IF differ THEN 4 ELSE 2, 0)
        ELSE Out(Ret(LinLog10(-25,
                     Div(Mul(Div(One, OnePlusZ(z)), Mul(int1, int2)),
                         Mul(int3, int4)), 0)), IF differ THEN 4 ELSE 2, 1)

kCorrectionXY(filtX, filtY, z) ==
    IF filtX \notin DOMAIN filterDict THEN Out(Raise(LookupErr), 0, 0)
    ELSE IF filtY \notin DOMAIN filterDict THEN Out(Raise(LookupErr), 0, 0)
    ELSE
    LET aX == returnFilterRange(filtX)[1]
        bX == returnFilterRange(filtX)[2]
        aY == returnFilterRange(filtY)[1]
        bY == returnFilterRange(filtY)[2]
        int1 == quad([i \in Grid |-> integrand1(i, z, filtX)], aX, bX)
        int3 == quad([i \in Grid |-> integrand1(i, 0, filtY)], aY, bY)
        differ == filtX # filtY
        int2 == IF differ THEN quad([i \in Grid |-> integrand2(i, filtY)], aY, bY)
                ELSE One
        int4 == IF differ THEN quad([i \in Grid |-> integrand2(i, filtX)], aX, bX)
                ELSE One
        q == IF differ THEN 4 ELSE 2
    IN  IF differ /\ (IsZero(int2) \/ IsZero(int4))
            THEN Out(Raise(FilterZeroErr), q, 0)
        ELSE IF IsZero(int1) THEN Out(Ret(MagInf), q, 0)
        ELSE IF IsZero(int3) THEN Out(Raise(NoRestFluxErr), q, 0)
        ELSE Out(Ret(LinLog10(-25,
                     Div(Mul(Div(One, OnePlusZ(z)), Mul(int1, int2)),
                         Mul(int3, int4)), 0)), q, 1)

(***************************************************************************)
(* PhotCalcs.computeColor.  Python raises ZeroDivisionError for a float    *)
(* division by zero and ValueError for math.log10(0).                      *)
(***************************************************************************)
\* variant with a plausible slip: the filters are compared before they are looked up
computeColor_IdentityFirst(filtX, filtY, z) ==
    IF filtX = filtY THEN Out(Raise(SameFilterErr), 0, 0)
    ELSE IF filtX \notin DOMAIN filterDict THEN Out(Raise(LookupErr), 0, 0)
    ELSE IF filtY \notin DOMAIN filterDict THEN Out(Raise(LookupErr), 0, 0)
    ELSE
    LET aX == returnFilterRange(filtX)[1]
        bX == returnFilterRange(filtX)[2]
        int1 == quad([i \in Grid |-> integrand1(i, z, filtX)], aX, bX)
        int2 == quad([i \in Grid |-> integrand1(i, z, filtY)], aX, bX)
        int3 == quad([i \in Grid |-> integrand2(i, filtX)], aX, bX)
        int4 == quad([i \in Grid |-> integrand2(i, filtY)], aX, bX)
    IN  IF IsZero(int3) THEN Out(Raise(ZeroDivErr), 4, 0)
        ELSE IF IsZero(int4) THEN Out(Raise(MathDomainErr), 4, 0)
        ELSE IF IsZero(int2) THEN Out(Raise(ZeroDivErr), 4, 1)
        ELSE IF IsZero(int1) THEN Out(Raise(MathDomainErr), 4, 1)
        ELSE Out(Ret(AddMag(LinLog10(-25, Div(int1, int2), 0),
                            LinLog10(-25, Div(int4, int3), 0))), 4, 2)

\* variant with a plausible slip: zero flux in filter X gives +infinity, as in kCorrectionXY
computeColor_InfOnZeroFlux(filtX, filtY, z) ==
    IF filtX \notin DOMAIN filterDict THEN Out(Raise(LookupErr), 0, 0)
    ELSE IF filtY \notin DOMAIN filterDict THEN Out(Raise(LookupErr), 0, 0)
    ELSE IF filtX = filtY THEN Out(Raise(SameFilterErr), 0, 0)
    ELSE
    LET aX == returnFilterRange(filtX)[1]
        bX == returnFilterRange(filtX)[2]
        int1 == quad([i \in Grid |-> integrand1(i, z, filtX)], aX, bX)
        int2 == quad([i \in Grid |-> integrand1(i, z, filtY)], aX, bX)
        int3 == quad([i \in Grid |-> integrand2(i, filtX)], aX, bX)
        int4 == quad([i \in Grid |-> integrand2(i, filtY)], aX, bX)
    IN  IF IsZero(int1) THEN Out(Ret(MagInf), 2, 0)
        ELSE IF IsZero(int3) THEN Out(Raise(ZeroDivErr), 4, 0)
        ELSE IF IsZero(int4) THEN Out(Raise(MathDomainErr), 4, 0)
        ELSE IF IsZero(int2) THEN Out(Raise(ZeroDivErr), 4, 1)
        ELSE Out(Ret(AddMag(LinLog10(-25, Div(int1, int2), 0),
                            LinLog10(-25, Div(int4, int3), 0))), 4, 2)

computeColor(filtX, filtY, z) ==
    IF filtX \notin DOMAIN filterDict THEN Out(Raise(LookupErr), 0, 0)
    ELSE IF filtY \notin DOMAIN filterDict THEN Out(Raise(LookupErr), 0, 0)
    ELSE IF filtX = filtY THEN Out(Raise(SameFilterErr), 0, 0)
    ELSE
    LET aX == returnFilterRange(filtX)[1]
        bX == returnFilterRange(filtX)[2]
        int1 == quad([i \in Grid |-> integrand1(i, z, filtX)], aX, bX)
        int2 == quad([i \in Grid |-> integrand1(i, z, filtY)], aX, bX)
        int3 == quad([i \in Grid |-> integrand2(i, filtX)], aX, bX)
        int4 == quad([i \in Grid |-> integrand2(i, filtY)], aX, bX)
    IN  IF IsZero(int3) THEN Out(Raise(ZeroDivErr), 4, 0)
        ELSE IF IsZero(int4) THEN Out(Raise(MathDomainErr), 4, 0)
        ELSE IF IsZero(int2) THEN Out(Raise(ZeroDivErr), 4, 1)
        ELSE IF IsZero(int1) THEN Out(Raise(MathDomainErr), 4, 1)
        ELSE Out(Ret(AddMag(LinLog10(-25, Div(int1, int2), 0),
                            LinLog10(-25, Div(int4, int3), 0))), 4, 2)

(***************************************************************************)
(* Flux / magnitude conversions.  Magnitudes are multiples of 2.5 mag on   *)
(* these inputs, so 10^(-0.4*mag) is a power of ten.  Fractional flux      *)
(* errors are kept in units of 0.004*ln(10) and magnitude errors in tenths *)
(* of a magnitude, so dividing by 0.4*ln(10) divides the count by ten.     *)
(***************************************************************************)
\* PhotCalcs.convertMagToFlux: pow(10, -0.4*mag)*Fc with Fc = 1
convertMagToFlux(mag) ==
    IF mag.inf THEN Ret(Zero) ELSE Ret(Mul(P10(-(mag.v \div 25)), One))

\* PhotCalcs.convertFluxToMag
convertFluxToMag(flux) ==
    IF LeqZero(flux) THEN Raise(FluxErr)
    ELSE Ret(LinLog10(-25, Div(flux, One), 0))

\* PhotCalcs.convertFluxAndErrorToMags
convertFluxAndErrorToMags(flux, dFluxOverFlux) ==
    IF LeqZero(flux) THEN Raise(FluxErr)
    ELSE IF dFluxOverFlux < 0 THEN Raise(FracErr)
    ELSE LET errorMag == dFluxOverFlux \div 10
             mag == LinLog10(-25, flux, 0)
         IN  Ret(<<mag, errorMag>>)

\* PhotCalcs.convertMagErrorToFracFluxError
convertMagErrorToFracFluxError(errorMag) ==
    IF errorMag < 0 THEN Raise(MagErrErr)
    ELSE LET dFluxOverFlux == errorMag * 10 IN Ret(dFluxOverFlux)

(***************************************************************************)
(* The cosmology model: an emission redshift z and the distance it reports *)
(* for each redshift.                                                      *)
(***************************************************************************)
\* distances in Mpc: 0, 1e-6, 1e-5, 1e-4, 100 and +infinity
DLVals == <<Zero, P10(-6), P10(-5), P10(-4), P10(2), PInf>>

\* distance tables of the cosmology: the two redshifts have different
\* distances, and over the tables every distance occurs at every redshift
CosmoTables ==
    {[z \in Zs |-> DLVals[IF z = 0 THEN i ELSE (i % Len(DLVals)) + 1]] :
        i \in 1..Len(DLVals)}

\* cosmoModel.setEmissionRedShift(z)
setEmissionRedShift(cm, z) == [cm EXCEPT !.z = z]

\* cosmoModel.LuminosityDistanceMpc()
LuminosityDistanceMpc(cm) == cm.dist[cm.z]

SetEv(z) == [call |-> "setEmissionRedShift", z |-> z]
ReadEv(z) == [call |-> "LuminosityDistanceMpc", z |-> z]

\* variant with a plausible slip: the logarithm is taken for every positive distance
distanceModulus_NoLimit(dL) ==
    IF dL.k \in {"pos", "inf"} THEN LinLog10(50, dL, 250) ELSE MagFin(0)

\* distance modulus of getMag: 0 unless dL > 1e-5
distanceModulus(dL) ==
    IF Gt(dL, P10(-5)) THEN LinLog10(50, dL, 250) ELSE MagFin(0)

(***************************************************************************)
(* CalcMag.getMag on cosmology model cm.  absMag is <<filtRF, aM>>.  The   *)
(* result carries the model after the call and the cosmology calls made.   *)
(***************************************************************************)
MagOut(res, q, l, cm, clog) ==
    [res |-> res, nQuad |-> q, nLog |-> l, cm |-> cm, cosmoLog |-> clog]

\* variant with a plausible slip: the cosmology is used before the k-correction is computed
getMag_CosmologyFirst(cm, filtObs, z, absMag) ==
    LET filtRF == absMag[1]
        aM == absMag[2]
        cm1 == setEmissionRedShift(cm, z)
        dL == LuminosityDistanceMpc(cm1)
        kc == kCorrectionXY(filtObs, filtRF, z)
    IN  IF kc.res.kind = "raise"
            THEN MagOut(kc.res, kc.nQuad, kc.nLog, cm1, <<SetEv(z), ReadEv(cm1.z)>>)
        ELSE
        LET mu == distanceModulus(dL)
            l == IF Gt(dL, P10(-5)) THEN 1 ELSE 0
            mag == AddMag(AddMag(aM, mu), kc.res.val)
        IN  MagOut(Ret(mag), kc.nQuad, kc.nLog + l, cm1,
                   <<SetEv(z), ReadEv(cm1.z)>>)

\* variant with a plausible slip: an infinite k-correction is returned before the cosmology is used
getMag_ShortCircuitInf(cm, filtObs, z, absMag) ==
    LET filtRF == absMag[1]
        aM == absMag[2]
        kc == kCorrectionXY(filtObs, filtRF, z)
    IN  IF kc.res.kind = "raise"
            THEN MagOut(kc.res, kc.nQuad, kc.nLog, cm, <<>>)
        ELSE IF kc.res.val = MagInf
            THEN MagOut(Ret(MagInf), kc.nQuad, kc.nLog, cm, <<>>)
        ELSE
        LET cm1 == setEmissionRedShift(cm, z)
            dL == LuminosityDistanceMpc(cm1)
            mu == distanceModulus(dL)
            l == IF Gt(dL, P10(-5)) THEN 1 ELSE 0
            mag == AddMag(AddMag(aM, mu), kc.res.val)
        IN  MagOut(Ret(mag), kc.nQuad, kc.nLog + l, cm1,
                   <<SetEv(z), ReadEv(cm1.z)>>)

getMag(cm, filtObs, z, absMag) ==
    LET filtRF == absMag[1]
        aM == absMag[2]
        kc == kCorrectionXY(filtObs, filtRF, z)
    IN  IF kc.res.kind = "raise"
            THEN MagOut(kc.res, kc.nQuad, kc.nLog, cm, <<>>)
        ELSE
        LET cm1 == setEmissionRedShift(cm, z)
            dL == LuminosityDistanceMpc(cm1)
            mu == distanceModulus(dL)
            l == IF Gt(dL, P10(-5)) THEN 1 ELSE 0
            mag == AddMag(AddMag(aM, mu), kc.res.val)
        IN  MagOut(Ret(mag), kc.nQuad, kc.nLog + l, cm1,
                   <<SetEv(z), ReadEv(cm1.z)>>)

(***************************************************************************)
(* ObsMag.simulateObservation.  The error model is a collaborator: its     *)
(* answer to getObs is the true magnitude shifted by noise.d, with error   *)
(* noise.e.                                                                *)
(***************************************************************************)
Noise == {[d |-> -1, e |-> 1], [d |-> 2, e |-> 3]}

\* errorModel.getObs(mag, filtObs, sed, size)
getObs(mag, filtObs, s, size, noise) ==
    <<AddMag(mag, MagFin(noise.d)), MagFin(noise.e)>>

ObsEv(mag, filtObs, s, size) ==
    [mag |-> mag, filtObs |-> filtObs, sed |-> s, size |-> size]

ObsOut(res, m, elog) ==
    [res |-> res, nQuad |-> m.nQuad, nLog |-> m.nLog, cm |-> m.cm,
     cosmoLog |-> m.cosmoLog, errLog |-> elog]

\* variant with a plausible slip: the error model is called for an infinite magnitude too
simulateObservation_NoInfCheck(cm, filtObs, z, absMag, size, noise) ==
    LET m == getMag(cm, filtObs, z, absMag)
    IN  IF m.res.kind = "raise" THEN ObsOut(m.res, m, <<>>)
        ELSE
        LET mag == m.res.val
            obs == getObs(mag, filtObs, sed, size, noise)
        IN  ObsOut(Ret(<<obs[1], obs[2], mag>>), m,
                   <<ObsEv(mag, filtObs, sed, size)>>)

\* variant with a plausible slip: the observed magnitude is returned in place of the true one
simulateObservation_ObsAsTrue(cm, filtObs, z, absMag, size, noise) ==
    LET m == getMag(cm, filtObs, z, absMag)
    IN  IF m.res.kind = "raise" THEN ObsOut(m.res, m, <<>>)
        ELSE
        LET mag == m.res.val
        IN  IF mag = MagInf THEN ObsOut(Ret(<<MagInf, MagInf, mag>>), m, <<>>)
            ELSE
            LET obs == getObs(mag, filtObs, sed, size, noise)
            IN  ObsOut(Ret(<<obs[1], obs[2], obs[1]>>), m,
                       <<ObsEv(mag, filtObs, sed, size)>>)

simulateObservation(cm, filtObs, z, absMag, size, noise) ==
    LET m == getMag(cm, filtObs, z, absMag)
    IN  IF m.res.kind = "raise" THEN ObsOut(m.res, m, <<>>)
        ELSE
        LET mag == m.res.val
        IN  IF mag = MagInf THEN ObsOut(Ret(<<MagInf, MagInf, mag>>), m, <<>>)
            ELSE
            LET obs == getObs(mag, filtObs, sed, size, noise)
            IN  ObsOut(Ret(<<obs[1], obs[2], mag>>), m,
                       <<ObsEv(mag, filtObs, sed, size)>>)

(***************************************************************************)
(* The calculator used by one caller: one action per method, each the      *)
(* whole call.  op, args, ret and the logs describe the call in progress;  *)
(* Return hands the result to the caller, who may then call again.         *)
(***************************************************************************)
NoRet == [kind |-> "none", val |-> NoVal, exc |-> "none"]

\* absolute magnitudes drawn for absMag[1], in tenths of a magnitude
AbsMags == {MagFin(-10 * m) : m \in 0..MaxAbsMag}

\* sizes drawn for simulateObservation; -1 is the default
Sizes == {-1, 2}

\* magnitudes and fluxes drawn for the conversions
ConvMags == {MagFin(-25), MagFin(0), MagFin(50), MagInf}
ConvFluxes == {N10(0), Zero, P10(-1), One, P10(2)}
ConvErrs == {-10, 0, 10, 30}

Workers == {1, 2}
ModelIds == {0} \cup Workers

ConcIdle ==
    /\ pc = [w \in Workers |-> "idle"]
    /\ wargs = [w \in Workers |-> <<>>]
    /\ wkc = [w \in Workers |-> NoVal]
    /\ wdL = [w \in Workers |-> Zero]
    /\ wret = [w \in Workers |-> NoRet]

Init ==
    /\ sed \in SEDs
    /\ filterDict = Filters
    /\ cosmoModel \in [z : {0}, dist : CosmoTables]
    /\ errorModel = "errorModel"
    /\ op = "idle"
    /\ args = <<>>
    /\ ret = NoRet
    /\ nQuad = 0
    /\ nLog = 0
    /\ cosmoLog = <<>>
    /\ errLog = <<>>
    /\ shared = FALSE
    /\ models = [m \in ModelIds |-> cosmoModel]
    /\ ConcIdle

\* a call of a PhotCalcs method, which touches no collaborator state
PhotCall(name, a, out) ==
    /\ op = "idle"
    /\ op' = name
    /\ args' = a
    /\ ret' = out.res
    /\ nQuad' = out.nQuad
    /\ nLog' = out.nLog
    /\ cosmoLog' = <<>>
    /\ errLog' = <<>>
    /\ UNCHANGED <<sed, filterDict, cosmoModel, errorModel>>
    /\ UNCHANGED concVars

KCorrectionXY ==
    \E filtX \in Names, filtY \in Names, z \in Zs :
        PhotCall("kCorrectionXY", <<filtX, filtY, z>>, kCorrectionXY(filtX, filtY, z))

ComputeColor ==
    \E filtX \in Names, filtY \in Names, z \in Zs :
        PhotCall("computeColor", <<filtX, filtY, z>>, computeColor(filtX, filtY, z))

ConvertMagToFlux ==
    \E mag \in ConvMags :
        PhotCall("convertMagToFlux", <<mag>>, Out(convertMagToFlux(mag), 0, 0))

ConvertFluxToMag ==
    \E flux \in ConvFluxes :
        PhotCall("convertFluxToMag", <<flux>>,
                 Out(convertFluxToMag(flux), 0, IF LeqZero(flux) THEN 0 ELSE 1))

ConvertFluxAndErrorToMags ==
    \E flux \in ConvFluxes, dFluxOverFlux \in ConvErrs :
        PhotCall("convertFluxAndErrorToMags", <<flux, dFluxOverFlux>>,
                 Out(convertFluxAndErrorToMags(flux, dFluxOverFlux), 0,
                     IF LeqZero(flux) \/ dFluxOverFlux < 0 THEN 0 ELSE 1))

ConvertMagErrorToFracFluxError ==
    \E errorMag \in ConvErrs :
        PhotCall("convertMagErrorToFracFluxError", <<errorMag>>,
                 Out(convertMagErrorToFracFluxError(errorMag), 0, 0))

GetMag ==
    \E filtObs \in Names, filtRF \in Names, z \in Zs, aM \in AbsMags :
        LET out == getMag(cosmoModel, filtObs, z, <<filtRF, aM>>)
        IN  /\ op = "idle"
            /\ op' = "getMag"
            /\ args' = <<filtObs, z, <<filtRF, aM>>>>
            /\ ret' = out.res
            /\ nQuad' = out.nQuad
            /\ nLog' = out.nLog
            /\ cosmoModel' = out.cm
            /\ cosmoLog' = out.cosmoLog
            /\ errLog' = <<>>
            /\ UNCHANGED <<sed, filterDict, errorModel>>
            /\ UNCHANGED concVars

SimulateObservation ==
    \E filtObs \in Names, filtRF \in Names, z \in Zs, aM \in AbsMags,
       size \in Sizes, noise \in Noise :
        LET out == simulateObservation(cosmoModel, filtObs, z, <<filtRF, aM>>,
                                       size, noise)
        IN  /\ op = "idle"
            /\ op' = "simulateObservation"
            /\ args' = <<filtObs, z, <<filtRF, aM>>, size>>
            /\ ret' = out.res
            /\ nQuad' = out.nQuad
            /\ nLog' = out.nLog
            /\ cosmoModel' = out.cm
            /\ cosmoLog' = out.cosmoLog
            /\ errLog' = out.errLog
            /\ UNCHANGED <<sed, filterDict, errorModel>>
            /\ UNCHANGED concVars

Return ==
    /\ op # "idle"
    /\ op' = "idle"
    /\ args' = <<>>
    /\ ret' = NoRet
    /\ nQuad' = 0
    /\ nLog' = 0
    /\ cosmoLog' = <<>>
    /\ errLog' = <<>>
    /\ UNCHANGED <<sed, filterDict, cosmoModel, errorModel>>
    /\ UNCHANGED concVars

Next ==
    \/ KCorrectionXY
    \/ ComputeColor
    \/ ConvertMagToFlux
    \/ ConvertFluxToMag
    \/ ConvertFluxAndErrorToMags
    \/ ConvertMagErrorToFracFluxError
    \/ GetMag
    \/ SimulateObservation
    \/ Return

Spec == Init /\ [][Next]_vars

(***************************************************************************)
(* Two workers calling getMag concurrently, statement by statement.  With  *)
(* shared they use one CosmologyModel instance (model 0), otherwise worker *)
(* w owns model w.  The SED and the filters are only read.                 *)
(***************************************************************************)
ModelOf(w) == IF shared THEN 0 ELSE w

\* filters and absolute magnitude of the concurrent calls
ConcNames == {"u", "nofilt"}
ConcAbsMag == <<"u", MagFin(0)>>

InitConc ==
    /\ sed = [i \in 0..NLam |-> One]
    /\ filterDict = Filters
    /\ cosmoModel \in [z : {0}, dist : CosmoTables]
    /\ errorModel = "errorModel"
    /\ op = "idle"
    /\ args = <<>>
    /\ ret = NoRet
    /\ nQuad = 0
    /\ nLog = 0
    /\ cosmoLog = <<>>
    /\ errLog = <<>>
    /\ shared \in BOOLEAN
    /\ models = [m \in ModelIds |-> cosmoModel]
    /\ ConcIdle

\* getMag up to the k-correction (lines 265-270)
WCall(w) ==
    \E filtObs \in ConcNames, z \in Zs :
        LET kc == kCorrectionXY(filtObs, ConcAbsMag[1], z)
        IN  /\ pc[w] = "idle"
            /\ wargs' = [wargs EXCEPT ![w] = <<filtObs, z, ConcAbsMag>>]
            /\ IF kc.res.kind = "raise"
                   THEN /\ pc' = [pc EXCEPT ![w] = "done"]
                        /\ wret' = [wret EXCEPT ![w] = kc.res]
                        /\ UNCHANGED wkc
                   ELSE /\ pc' = [pc EXCEPT ![w] = "set"]
                        /\ wkc' = [wkc EXCEPT ![w] = kc.res.val]
                        /\ UNCHANGED wret
            /\ UNCHANGED <<shared, models, wdL>>
            /\ UNCHANGED calcVars

\* variant with a plausible slip: the redshift is not set before the distance is read
WSet_Skipped(w) ==
    /\ pc[w] = "set"
    /\ pc' = [pc EXCEPT ![w] = "read"]
    /\ UNCHANGED <<shared, models, wargs, wkc, wdL, wret>>
    /\ UNCHANGED calcVars

\* self.cosmoModel.setEmissionRedShift(z)
WSet(w) ==
    /\ pc[w] = "set"
    /\ models' = [models EXCEPT
                     ![ModelOf(w)] = setEmissionRedShift(@, wargs[w][2])]
    /\ pc' = [pc EXCEPT ![w] = "read"]
    /\ UNCHANGED <<shared, wargs, wkc, wdL, wret>>
    /\ UNCHANGED calcVars

\* dL = self.cosmoModel.LuminosityDistanceMpc()
WRead(w) ==
    /\ pc[w] = "read"
    /\ wdL' = [wdL EXCEPT ![w] = LuminosityDistanceMpc(models[ModelOf(w)])]
    /\ pc' = [pc EXCEPT ![w] = "mag"]
    /\ UNCHANGED <<shared, models, wargs, wkc, wret>>
    /\ UNCHANGED calcVars

\* distance modulus, final magnitude and return (lines 279-286)
WMag(w) ==
    /\ pc[w] = "mag"
    /\ wret' = [wret EXCEPT
                   ![w] = Ret(AddMag(AddMag(wargs[w][3][2],
                                            distanceModulus(wdL[w])), wkc[w]))]
    /\ pc' = [pc EXCEPT ![w] = "done"]
    /\ UNCHANGED <<shared, models, wargs, wkc, wdL>>
    /\ UNCHANGED calcVars

\* the caller takes the result; the worker may call again
WReturn(w) ==
    /\ pc[w] = "done"
    /\ pc' = [pc EXCEPT ![w] = "idle"]
    /\ wargs' = [wargs EXCEPT ![w] = <<>>]
    /\ wkc' = [wkc EXCEPT ![w] = NoVal]
    /\ wdL' = [wdL EXCEPT ![w] = Zero]
    /\ wret' = [wret EXCEPT ![w] = NoRet]
    /\ UNCHANGED <<shared, models>>
    /\ UNCHANGED calcVars

NextConc ==
    \E w \in Workers :
        \/ WCall(w)
        \/ WSet(w)
        \/ WRead(w)
        \/ WMag(w)
        \/ WReturn(w)

SpecConc == InitConc /\ [][NextConc]_vars

(***************************************************************************)
(* Properties.  In a state with op # "idle" the call op(args) has run and  *)
(* ret, the logs and the collaborators are as it left them.                *)
(***************************************************************************)
Present(f) == f \in DOMAIN filterDict

MagCall == op \in {"getMag", "simulateObservation"}

\* the k-correction of the getMag / simulateObservation call in progress
CallKc == kCorrectionXY(args[1], args[3][1], args[2])

\* the distance the cosmology reports for the redshift of the call
CallDL == cosmoModel.dist[args[2]]

\* the four integrals of kCorrectionXY(fx, fy, z)
I1(fx, z) == quad([i \in Grid |-> integrand1(i, z, fx)],
                  returnFilterRange(fx)[1], returnFilterRange(fx)[2])
I3(fy) == quad([i \in Grid |-> integrand1(i, 0, fy)],
               returnFilterRange(fy)[1], returnFilterRange(fy)[2])
I2(fx, fy) == IF fx = fy THEN One
              ELSE quad([i \in Grid |-> integrand2(i, fy)],
                        returnFilterRange(fy)[1], returnFilterRange(fy)[2])
I4(fx, fy) == IF fx = fy THEN One
              ELSE quad([i \in Grid |-> integrand2(i, fx)],
                        returnFilterRange(fx)[1], returnFilterRange(fx)[2])

\* C1: when the k-correction of a getMag / simulateObservation call is
\* +infinity (aM finite), getMag returns +infinity and simulateObservation
\* returns (+inf, +inf, +inf) without a call of the error model, whatever
\* distance the cosmology reports.
C1_InfinitePropagates ==
    (MagCall /\ CallKc.res = Ret(MagInf)) =>
        /\ op = "getMag" => ret = Ret(MagInf)
        /\ op = "simulateObservation" =>
               /\ ret = Ret(<<MagInf, MagInf, MagInf>>)
               /\ errLog = <<>>

C1_Witness ==
    /\ op = "simulateObservation"
    /\ CallKc.res = Ret(MagInf)
    /\ CallDL = P10(2)
    /\ ret = Ret(<<MagInf, MagInf, MagInf>>)
    /\ errLog = <<>>

\* C2: with both filters present kCorrectionXY applies its edge cases in
\* order: I2 == 0 or I4 == 0 raises the filter error (also when I1 == 0);
\* otherwise I1 == 0 returns +infinity (also when I3 == 0); otherwise
\* I3 == 0 raises the rest-frame-flux error; otherwise a finite value.
C2_EdgeCaseOrder ==
    (op = "kCorrectionXY" /\ Present(args[1]) /\ Present(args[2])) =>
        LET i1 == I1(args[1], args[3])
            i2 == I2(args[1], args[2])
            i3 == I3(args[2])
            i4 == I4(args[1], args[2])
        IN  IF IsZero(i2) \/ IsZero(i4) THEN ret = Raise(FilterZeroErr)
            ELSE IF IsZero(i1) THEN ret = Ret(MagInf)
            ELSE IF IsZero(i3) THEN ret = Raise(NoRestFluxErr)
            ELSE ret.kind = "ret" /\ ~ret.val.inf

C2_Witness ==
    /\ op = "kCorrectionXY"
    /\ Present(args[1]) /\ Present(args[2])
    /\ args[1] # args[2]
    /\ ~IsZero(I2(args[1], args[2])) /\ ~IsZero(I4(args[1], args[2]))
    /\ IsZero(I1(args[1], args[3])) /\ IsZero(I3(args[2]))
    /\ ret = Ret(MagInf)

\* filter f has transmission 0 over its whole declared range
ZeroTransmission(f) ==
    \A i \in returnFilterRange(f)[1]..returnFilterRange(f)[2] :
        IsZero(getTrans(f, i))

\* C3: kCorrectionXY called with a filter whose transmission is 0 over its
\* whole range (as filtX, as filtY or as both) raises the filter error
\* before any logarithm is taken and never returns a value.
C3_ZeroFilterAlwaysFails ==
    (/\ op = "kCorrectionXY"
     /\ Present(args[1]) /\ Present(args[2])
     /\ (ZeroTransmission(args[1]) \/ ZeroTransmission(args[2]))) =>
        ret = Raise(FilterZeroErr) /\ nLog = 0

\* C3 as amended: with two different filters, one of them of zero
\* transmission, kCorrectionXY raises the filter error before any logarithm;
\* with the same zero-transmission filter as filtX and filtY the filter
\* integrals are skipped and the call returns +infinity.
C3_ZeroFilterFailsWhenDistinct ==
    (/\ op = "kCorrectionXY"
     /\ Present(args[1]) /\ Present(args[2])
     /\ (ZeroTransmission(args[1]) \/ ZeroTransmission(args[2]))) =>
        /\ nLog = 0
        /\ args[1] # args[2] => ret = Raise(FilterZeroErr)
        /\ args[1] = args[2] => ret = Ret(MagInf)

C3_Witness ==
    /\ op = "kCorrectionXY"
    /\ args[1] = "dark" /\ args[2] = "u"
    /\ ZeroTransmission(args[1])
    /\ ~IsZero(I3(args[2]))
    /\ ret = Raise(FilterZeroErr)
    /\ nQuad = 4

\* the apparent magnitude of the getMag / simulateObservation call
CallMag == getMag(cosmoModel, args[1], args[2], args[3]).res

\* C4: when the apparent magnitude mag is finite, simulateObservation
\* calls errorModel.getObs exactly once, with (mag, filtObs, sed, size),
\* and returns (obsmag, emag, mag): what the error model answered, then
\* the unmodified true magnitude.
C4_FiniteObservation ==
    (/\ op = "simulateObservation"
     /\ CallMag.kind = "ret"
     /\ ~CallMag.val.inf) =>
        /\ errLog = <<ObsEv(CallMag.val, args[1], sed, args[4])>>
        /\ ret.kind = "ret"
        /\ ret.val[3] = CallMag.val
        /\ \E noise \in Noise :
               <<ret.val[1], ret.val[2]>> =
                   getObs(CallMag.val, args[1], sed, args[4], noise)

C4_Witness ==
    /\ op = "simulateObservation"
    /\ CallMag.kind = "ret"
    /\ ~CallMag.val.inf
    /\ args[4] = 2
    /\ Len(errLog) = 1
    /\ ret.kind = "ret"
    /\ ret.val[1] # ret.val[3]

\* dL <= 1e-5
AtMostLimit(dL) == dL.k = "zero" \/ dL.k = "neg" \/ (dL.k = "pos" /\ dL.e <= -5)

\* C5: getMag returns aM + mu + kc with mu = 0 for every dL <= 1e-5 (no
\* logarithm of the distance is then taken) and mu = 5*log10(dL) + 25 for
\* dL > 1e-5; so it returns aM when dL <= 1e-5 and kc == 0.
C5_DistanceModulus ==
    (op = "getMag" /\ CallKc.res.kind = "ret") =>
        LET aM == args[3][2]
            kc == CallKc.res.val
            mu == IF AtMostLimit(CallDL) THEN MagFin(0)
                  ELSE IF CallDL.k = "inf" THEN MagInf
                  ELSE MagFin(50 * CallDL.e + 250)
        IN  /\ ret = Ret(AddMag(AddMag(aM, mu), kc))
            /\ AtMostLimit(CallDL) => nLog = CallKc.nLog
            /\ (AtMostLimit(CallDL) /\ kc = MagFin(0)) => ret = Ret(aM)

C5_Witness ==
    /\ op = "getMag"
    /\ CallKc.res = Ret(MagFin(0))
    /\ CallDL = P10(-5)
    /\ args[3][2] = MagFin(-10)
    /\ ret = Ret(args[3][2])

\* a step that makes the call op'(args')
CallStep == op = "idle" /\ op' # "idle"

\* C6: a failure raised inside kCorrectionXY reaches the caller of getMag
\* and of simulateObservation unchanged, with the cosmology model left as
\* it was (no redshift set, no distance read) and no call of the error
\* model; a missing filter name is found before any integral is evaluated.
C6_FailuresSurface ==
    [][CallStep =>
        /\ (op' \in {"getMag", "simulateObservation"} /\ CallKc'.res.kind = "raise") =>
               /\ ret' = CallKc'.res
               /\ cosmoModel' = cosmoModel
               /\ cosmoLog' = <<>>
               /\ errLog' = <<>>
               /\ (~Present(args'[1]) \/ ~Present(args'[3][1])) =>
                      ret' = Raise(LookupErr) /\ nQuad' = 0
        /\ (op' = "kCorrectionXY" /\ (~Present(args'[1]) \/ ~Present(args'[2]))) =>
               ret' = Raise(LookupErr) /\ nQuad' = 0
      ]_vars

C6_Witness ==
    /\ op = "simulateObservation"
    /\ ret = Raise(NoRestFluxErr)
    /\ cosmoModel.z # args[2]
    /\ cosmoLog = <<>>
    /\ errLog = <<>>

\* C7: computeColor(f, f, z) raises the identical-filters error for every
\* f in the dictionary and every z, before any integral is evaluated; for f
\* not in the dictionary the lookup error is raised instead.
C7_IdenticalFilters ==
    (op = "computeColor" /\ args[1] = args[2]) =>
        /\ Present(args[1]) => ret = Raise(SameFilterErr) /\ nQuad = 0
        /\ ~Present(args[1]) => ret = Raise(LookupErr) /\ nQuad = 0

C7_Witness ==
    /\ op = "computeColor"
    /\ args[1] = "u" /\ args[2] = "u" /\ args[3] = 9
    /\ ret = Raise(SameFilterErr)

\* the distance of worker w's own redshift
OwnDistance(w) == models[ModelOf(w)].dist[wargs[w][2]]

\* C8: workers that each own a private CosmologyModel always read the
\* distance of their own redshift; with one shared instance a worker can
\* read the distance of the other worker's redshift (C8_Witness).
C8_PrivateModelsReadOwnDistance ==
    ~shared => \A w \in Workers : pc[w] = "mag" => wdL[w] = OwnDistance(w)

C8_Witness ==
    /\ shared
    /\ pc[1] = "mag" /\ pc[2] \in {"read", "mag"}
    /\ wargs[1][2] # wargs[2][2]
    /\ wdL[1] # OwnDistance(1)
    /\ wdL[1] = OwnDistance(2)

\* C9: no call changes the SED, the filter dictionary, the error model or
\* the cosmology's distance table; the emission redshift is changed only by
\* getMag (directly or through simulateObservation), to the z of the call;
\* every such call that gets past the k-correction sets the redshift to its
\* z and reads the distance as the next cosmology operation, also when the
\* result is +infinity; no other call uses the cosmology.
C9_Frame ==
    [][/\ sed' = sed
       /\ filterDict' = filterDict
       /\ errorModel' = errorModel
       /\ cosmoModel'.dist = cosmoModel.dist
       /\ cosmoModel'.z # cosmoModel.z =>
              /\ CallStep
              /\ op' \in {"getMag", "simulateObservation"}
              /\ cosmoModel'.z = args'[2]
       /\ (CallStep /\ op' \in {"getMag", "simulateObservation"}
                    /\ CallKc'.res.kind = "ret") =>
              /\ cosmoModel'.z = args'[2]
              /\ cosmoLog' = <<SetEv(args'[2]), ReadEv(args'[2])>>
       /\ (CallStep /\ op' \notin {"getMag", "simulateObservation"}) =>
              cosmoLog' = <<>>
      ]_vars

C9_Witness ==
    /\ op = "getMag"
    /\ ret = Ret(MagInf)
    /\ CallKc.res = Ret(MagInf)
    /\ args[2] = 9
    /\ cosmoModel.z = 9
    /\ cosmoLog = <<SetEv(9), ReadEv(9)>>

\* the four integrals of computeColor(fx, fy, z), all over fx's range
J1(fx, z) == quad([i \in Grid |-> integrand1(i, z, fx)],
                  returnFilterRange(fx)[1], returnFilterRange(fx)[2])
J2(fx, fy, z) == quad([i \in Grid |-> integrand1(i, z, fy)],
                      returnFilterRange(fx)[1], returnFilterRange(fx)[2])
K1(fx) == quad([i \in Grid |-> integrand2(i, fx)],
               returnFilterRange(fx)[1], returnFilterRange(fx)[2])
K2(fx, fy) == quad([i \in Grid |-> integrand2(i, fy)],
                   returnFilterRange(fx)[1], returnFilterRange(fx)[2])

\* C10: computeColor has no zero-integral handling: for two different
\* filters of the dictionary it raises an error whenever one of J1, J2, K1,
\* K2 is zero, and returns a finite value exactly when all four are
\* non-zero; it never returns +infinity.
C10_ColorZeroIntegrals ==
    (/\ op = "computeColor"
     /\ Present(args[1]) /\ Present(args[2])
     /\ args[1] # args[2]) =>
        LET anyZero == \/ IsZero(J1(args[1], args[3]))
                       \/ IsZero(J2(args[1], args[2], args[3]))
                       \/ IsZero(K1(args[1]))
                       \/ IsZero(K2(args[1], args[2]))
        IN  /\ anyZero => ret.kind = "raise" /\ ret.exc \in {ZeroDivErr, MathDomainErr}
            /\ ~anyZero => ret.kind = "ret" /\ ~ret.val.inf

C10_Witness ==
    /\ op = "computeColor"
    /\ args[1] = "r" /\ args[2] = "u"
    /\ ~IsZero(J1(args[1], args[3]))
    /\ ~IsZero(K1(args[1]))
    /\ IsZero(J2(args[1], args[2], args[3]))
    /\ IsZero(K2(args[1], args[2]))
    /\ ret.kind = "raise"

====
